---- MODULE Spec2Model ----
(***************************************************************************)
(* EduGap_Analysis_Notebook.ipynb as a state machine.                      *)
(*                                                                         *)
(* The kernel state is the DataFrame `data`, the set of names bound in the *)
(* kernel, and the exceptions raised so far.  One action per code cell,    *)
(* executed in notebook order.  A cell that raises keeps the effect of the *)
(* statements before the raising one; the kernel stays alive, so the next  *)
(* cell can still be executed (a batch run that stops at the first         *)
(* exception is the prefix of such a behaviour up to the first error).     *)
(*                                                                         *)
(* averages_calculate and bar_graph are only defined by the notebook; they *)
(* are checked as functions of a DataFrame argument under SpecAgg.         *)
(***************************************************************************)
EXTENDS Integers, Sequences, FiniteSets, TLC

VARIABLES
    pc,        \* the next cell to execute
    file,      \* contents of edugap_data.csv
    data,      \* the DataFrame bound to `data`: [cols, rows]
    names,     \* names bound in the kernel
    errors,    \* exceptions raised so far: [cell, line, kind]
    df,        \* SpecAgg: the DataFrame passed to the reporting functions
    call,      \* SpecAgg: the last call [fn, group_cols, label_col, top_n]
    out        \* SpecAgg: what the last call produced

vars == <<pc, file, data, names, errors, df, call, out>>

\* ------------------------------------------------------------------ bounds

MaxRows == 2
MaxAggRows == 3
MaxTopN == 2

\* ------------------------------------------------------------- DataFrames

\* A missing value in a column of strings, and in a column of numbers.
NaN == "<NaN>"
NaNCode == -1

\* read_csv gives these columns dtype object (strings); the others are numeric.
ObjectColumns == {"gender", "education", "employment"}

IsNa(r, c) == IF c \in ObjectColumns THEN r[c] = NaN ELSE r[c] = NaNCode

NoFrame == [cols |-> {}, rows |-> <<>>]

Range(s) == {s[i] : i \in DOMAIN s}

\* The rows whose number is in keep, in their order (boolean indexing).
SelectRows(rows, keep) ==
    LET F[i \in 0..Len(rows)] ==
            IF i = 0 THEN <<>>
            ELSE IF i \in keep THEN Append(F[i - 1], rows[i]) ELSE F[i - 1]
    IN F[Len(rows)]

\* data[col] = values, one value per row; creates the column when it is new.
SetColumn(d, col, values) ==
    [cols |-> d.cols \cup {col},
     rows |-> [i \in DOMAIN d.rows |->
                 [c \in d.cols \cup {col} |->
                     IF c = col THEN values[i] ELSE d.rows[i][c]]]]

\* The values of a column, in row order.
Column(d, col) == [i \in DOMAIN d.rows |-> d.rows[i][col]]

\* ----------------------------------------------------------------- inputs

PreScore == <<"Basic_Computer_Knowledge_Score", "Internet_Usage_Score",
              "Mobile_Literacy_Score">>
PostScore == <<"Post_Training_Basic_Computer_Knowledge_Score",
               "Post_Training_Internet_Usage_Score",
               "Post_Training_Mobile_Literacy_Score">>
GainColumn == <<"Computer_Gain", "Internet_Gain", "Mobile_Gain">>
AccessLabel == <<"Computer_Skill_Label", "Internet_Usage_Label",
                 "Mobile_Literacy_Label">>
GainLabel == <<"Computer_Gain_Label", "Internet_Gain_Label", "Mobile_Gain_Label">>
Domains == 1..3

Demographic == {"gender", "age", "education", "employment"}
Required == Demographic \cup Range(PreScore) \cup Range(PostScore)

\* The columns cell c334bf4d reads that no cell creates.
Foreign == {"access_label", "skills_label", "Education_Level",
            "Household_Income", "Employment_Status", "Age_Group"}

Headers == {Required, Required \ {"education"}, Required \ {"gender"},
            Required \cup Foreign}

\* <<gender, education, employment>> as spelled in the file.
Categories == {<<"male", "bachelor", "full-time">>,
               <<"Female", "unknown", "part-time">>,
               <<"M", "phd", "retired">>,
               <<"female", "none", NaN>>}

\* <<pre computer, pre internet, pre mobile, post computer, post internet,
\*   post mobile>>
ScoreProfiles == {<<24, 25, 26, 30, 25, 20>>,
                  <<26, 27, 27, 28, 40, 27>>,
                  <<5, 10, 8, 40, 30, 45>>}

FileRow(header, cat, sc) ==
    [c \in header |->
        CASE c = "gender" -> cat[1]
          [] c = "education" -> cat[2]
          [] c = "employment" -> cat[3]
          [] c = "age" -> 30
          [] \E k \in Domains : c = PreScore[k] ->
                sc[CHOOSE k \in Domains : c = PreScore[k]]
          [] \E k \in Domains : c = PostScore[k] ->
                sc[3 + (CHOOSE k \in Domains : c = PostScore[k])]
          [] OTHER -> 0]

SeqsUpTo(S, n) == UNION {[1..m -> S] : m \in 0..n}

FileRows(h) == {FileRow(h, cat, sc) : cat \in Categories, sc \in ScoreProfiles}

Files ==
    UNION {{[cols |-> h, rows |-> r] : r \in SeqsUpTo(FileRows(h), MaxRows)} :
              h \in Headers}

\* ------------------------------------------------------------ the kernel

Raise(cell, line, kind) ==
    errors' = Append(errors, [cell |-> cell, line |-> line, kind |-> kind])

NoRaise == errors' = errors

Imports == {"pd", "np", "plt", "train_test_split", "MultiOutputClassifier",
            "RandomForestClassifier", "classification_report",
            "accuracy_score", "confusion_matrix", "variance_inflation_factor"}

\* cell 38734bc6
ImportCell ==
    /\ pc = "imports"
    /\ names' = names \cup Imports
    /\ pc' = "load"
    /\ NoRaise
    /\ UNCHANGED <<file, data, df, call, out>>

\* cell baa31fbb
LoadCell ==
    /\ pc = "load"
    /\ data' = file
    /\ names' = names \cup {"data"}
    /\ pc' = "clean"
    /\ NoRaise
    /\ UNCHANGED <<file, df, call, out>>

\* DataFrame.dropna: drops every row holding a missing value in any column
\* (applied to the frame as loaded, whose categorical columns hold strings).
DropNa(d) ==
    [d EXCEPT !.rows =
        SelectRows(d.rows, {i \in DOMAIN d.rows :
                               \A c \in d.cols : ~IsNa(d.rows[i], c)})]

\* str.lower() on the spellings that occur in Categories.
Lower(s) ==
    CASE s = "Female" -> "female"
      [] s = "M" -> "m"
      [] OTHER -> s

\* .replace({'male': 'M', 'female': 'F'})
ReplaceGender(s) ==
    CASE s = "male" -> "M"
      [] s = "female" -> "F"
      [] OTHER -> s

\* cell cc126fb1
CleanCell ==
    /\ pc = "clean"
    /\ LET d1 == DropNa(data)
           d2 == [d1 EXCEPT !.rows =
                     SelectRows(d1.rows, {i \in DOMAIN d1.rows :
                                             d1.rows[i]["education"] # "unknown"})]
           d3 == SetColumn(d2, "gender",
                           [i \in DOMAIN d2.rows |->
                               ReplaceGender(Lower(d2.rows[i]["gender"]))])
       IN  IF "education" \notin d1.cols
           THEN data' = d1 /\ Raise("clean", 82, "KeyError")
           ELSE IF "gender" \notin d2.cols
           THEN data' = d2 /\ Raise("clean", 83, "KeyError")
           ELSE data' = d3 /\ NoRaise
    /\ pc' = "encode"
    /\ UNCHANGED <<file, names, df, call, out>>

\* Series.map(dict): a value that is no key of the dict becomes NaN.
GenderCode(s) ==
    CASE s = "M" -> 0
      [] s = "F" -> 1
      [] OTHER -> NaNCode

EducationCode(s) ==
    CASE s = "none" -> 0
      [] s = "high school" -> 1
      [] s = "some college" -> 2
      [] s = "associate" -> 3
      [] s = "bachelor" -> 4
      [] s = "master" -> 5
      [] OTHER -> NaNCode

EmploymentCode(s) ==
    CASE s = "unemployed" -> 0
      [] s = "part-time" -> 1
      [] s = "full-time" -> 2
      [] OTHER -> NaNCode

\* cell 48b2587e
EncodeCell ==
    /\ pc = "encode"
    /\ LET d1 == SetColumn(data, "gender",
                           [i \in DOMAIN data.rows |->
                               GenderCode(data.rows[i]["gender"])])
           d2 == SetColumn(d1, "education",
                           [i \in DOMAIN d1.rows |->
                               EducationCode(d1.rows[i]["education"])])
           d3 == SetColumn(d2, "employment",
                           [i \in DOMAIN d2.rows |->
                               EmploymentCode(d2.rows[i]["employment"])])
       IN  IF "gender" \notin data.cols
           THEN data' = data /\ Raise("encode", 102, "KeyError")
           ELSE IF "education" \notin d1.cols
           THEN data' = d1 /\ Raise("encode", 103, "KeyError")
           ELSE IF "employment" \notin d2.cols
           THEN data' = d2 /\ Raise("encode", 104, "KeyError")
           ELSE data' = d3 /\ NoRaise
    /\ pc' = "gain"
    /\ UNCHANGED <<file, names, df, call, out>>

\* cell 97860878 (every header of Headers holds the six score columns, so
\* the subtractions find their operands)
GainCell ==
    /\ pc = "gain"
    /\ LET G(d, k) == SetColumn(d, GainColumn[k],
                                [i \in DOMAIN d.rows |->
                                    d.rows[i][PostScore[k]] - d.rows[i][PreScore[k]]])
       IN  data' = G(G(G(data, 1), 2), 3)
    /\ NoRaise
    /\ pc' = "median"
    /\ UNCHANGED <<file, names, df, call, out>>

\* ------------------------------------------------------- label construction

\* Insertion of x into an ascending sequence, and the ascending sort.
RECURSIVE Insert(_, _)
Insert(x, s) ==
    IF s = <<>> THEN <<x>>
    ELSE IF x <= Head(s) THEN <<x>> \o s
    ELSE <<Head(s)>> \o Insert(x, Tail(s))

RECURSIVE SortAsc(_)
SortAsc(s) == IF s = <<>> THEN <<>> ELSE Insert(Head(s), SortAsc(Tail(s)))

\* x <= quantile(values, q/100), with the default linear interpolation:
\* h = q/100 * (n-1), quantile = a[lo] + (h - lo) * (a[lo+1] - a[lo]) over the
\* ascending values a[0..n-1].  Compared in exact arithmetic, scaled by 100.
AtOrBelowQuantile(x, values, q) ==
    LET a == SortAsc(values)
        n == Len(a)
        lo == (q * (n - 1)) \div 100
        rem == (q * (n - 1)) % 100
        hi == IF lo + 1 < n THEN lo + 1 ELSE lo
    IN 100 * x <= 100 * a[lo + 1] + rem * (a[hi + 1] - a[lo + 1])

\* The six assignments of cell 07ef7f2d, in order.
MedianPass ==
    <<[target |-> "Computer_Skill_Label",
       source |-> "Basic_Computer_Knowledge_Score", threshold |-> 25],
      [target |-> "Internet_Usage_Label",
       source |-> "Internet_Usage_Score", threshold |-> 25],
      [target |-> "Mobile_Literacy_Label",
       source |-> "Mobile_Literacy_Score", threshold |-> 26],
      [target |-> "Computer_Gain_Label",
       source |-> "Basic_Computer_Knowledge_Score", threshold |-> 25],
      [target |-> "Internet_Gain_Label",
       source |-> "Internet_Usage_Score", threshold |-> 25],
      [target |-> "Mobile_Gain_Label",
       source |-> "Mobile_Literacy_Score", threshold |-> 26]>>

\* QuantilePass writing label columns of its own, so that the median-based
\* labels stay in the table beside the quantile-based ones.
QuantilePassOwnColumns ==
    <<[target |-> "Computer_Skill_Label_Q",
       source |-> "Basic_Computer_Knowledge_Score",
       of |-> "Basic_Computer_Knowledge_Score", q |-> 63],
      [target |-> "Internet_Usage_Label_Q",
       source |-> "Internet_Usage_Score", of |-> "Internet_Usage_Score", q |-> 56],
      [target |-> "Mobile_Literacy_Label_Q",
       source |-> "Mobile_Literacy_Score", of |-> "Mobile_Literacy_Score", q |-> 69],
      [target |-> "Computer_Gain_Label_Q",
       source |-> "Basic_Computer_Knowledge_Score", of |-> "Computer_Gain", q |-> 56],
      [target |-> "Internet_Gain_Label_Q",
       source |-> "Internet_Usage_Score", of |-> "Internet_Gain", q |-> 55],
      [target |-> "Mobile_Gain_Label_Q",
       source |-> "Mobile_Literacy_Score", of |-> "Mobile_Gain", q |-> 60]>>

\* The six assignments of cell 0da5ed96, in order: the column the lambda is
\* applied to (source), the column the quantile is taken of (of), and q * 100.
QuantilePass ==
    <<[target |-> "Computer_Skill_Label",
       source |-> "Basic_Computer_Knowledge_Score",
       of |-> "Basic_Computer_Knowledge_Score", q |-> 63],
      [target |-> "Internet_Usage_Label",
       source |-> "Internet_Usage_Score", of |-> "Internet_Usage_Score", q |-> 56],
      [target |-> "Mobile_Literacy_Label",
       source |-> "Mobile_Literacy_Score", of |-> "Mobile_Literacy_Score", q |-> 69],
      [target |-> "Computer_Gain_Label",
       source |-> "Basic_Computer_Knowledge_Score", of |-> "Computer_Gain", q |-> 56],
      [target |-> "Internet_Gain_Label",
       source |-> "Internet_Usage_Score", of |-> "Internet_Gain", q |-> 55],
      [target |-> "Mobile_Gain_Label",
       source |-> "Mobile_Literacy_Score", of |-> "Mobile_Gain", q |-> 60]>>

\* data[target] = data[source].apply(lambda x: 0 if x <= threshold else 1)
MedianAssign(d, a) ==
    SetColumn(d, a.target,
              [i \in DOMAIN d.rows |->
                  IF d.rows[i][a.source] <= a.threshold THEN 0 ELSE 1])

\* data[target] = data[source].apply(lambda x: 0 if x <= quantile(data[of], q) else 1)
QuantileAssign(d, a) ==
    SetColumn(d, a.target,
              [i \in DOMAIN d.rows |->
                  IF AtOrBelowQuantile(d.rows[i][a.source], Column(d, a.of), a.q)
                  THEN 0 ELSE 1])

\* The assignments of a cell from the i-th on; the first one that reads a
\* column the frame lacks raises KeyError and ends the cell.
RunAssignments(d, pass) ==
    LET Reads(a) == {a.source} \cup (IF "of" \in DOMAIN a THEN {a.of} ELSE {})
        Assign(t, a) == IF "of" \in DOMAIN a THEN QuantileAssign(t, a)
                        ELSE MedianAssign(t, a)
        F[i \in 0..Len(pass)] ==
            IF i = 0 THEN [data |-> d, failed |-> 0]
            ELSE LET p == F[i - 1]
                 IN  IF p.failed # 0 THEN p
                     ELSE IF ~(Reads(pass[i]) \subseteq p.data.cols)
                     THEN [data |-> p.data, failed |-> i]
                     ELSE [data |-> Assign(p.data, pass[i]), failed |-> 0]
    IN F[Len(pass)]

\* cell 07ef7f2d: lines 161-163 and 166-168
MedianLabelCell ==
    /\ pc = "median"
    /\ LET r == RunAssignments(data, MedianPass)
       IN  /\ data' = r.data
           /\ IF r.failed = 0 THEN NoRaise
              ELSE Raise("median", IF r.failed <= 3 THEN 160 + r.failed
                                     ELSE 162 + r.failed, "KeyError")
    /\ pc' = "quantile"
    /\ UNCHANGED <<file, names, df, call, out>>

\* cell 0da5ed96: lines 196-198 and 201-203
QuantileLabelCell ==
    /\ pc = "quantile"
    /\ LET r == RunAssignments(data, QuantilePass)
       IN  /\ data' = r.data
           /\ IF r.failed = 0 THEN NoRaise
              ELSE Raise("quantile", IF r.failed <= 3 THEN 195 + r.failed
                                     ELSE 197 + r.failed, "KeyError")
    /\ pc' = "xy_vif"
    /\ UNCHANGED <<file, names, df, call, out>>

\* ------------------------------------- collinearity, training, evaluation

\* A statement that only reads and binds: the columns of `data` it selects,
\* the kernel names it reads, the names it binds.  Library calls (VIF, fit,
\* predict, plotting) are taken to succeed on whatever they are given.
RECURSIVE RunStatements(_, _, _, _)
RunStatements(stmts, i, cols, bound) ==
    IF i > Len(stmts) THEN [names |-> bound, failed |-> 0, kind |-> "none"]
    ELSE IF ~(stmts[i].uses \subseteq bound)
    THEN [names |-> bound, failed |-> stmts[i].line, kind |-> "NameError"]
    ELSE IF ~(stmts[i].cols \subseteq cols)
    THEN [names |-> bound, failed |-> stmts[i].line, kind |-> "KeyError"]
    ELSE RunStatements(stmts, i + 1, cols, bound \cup stmts[i].binds)

XYVifStatements ==
    <<[line |-> 230, uses |-> {"data"}, cols |-> Demographic, binds |-> {"X"}],
      [line |-> 231, uses |-> {"data"}, cols |-> {"access_label", "skills_label"},
       binds |-> {"y"}],
      [line |-> 233, uses |-> {"data"},
       cols |-> {"Education_Level", "Household_Income", "Employment_Status",
                 "Age_Group"},
       binds |-> {"features"}],
      [line |-> 234, uses |-> {"pd", "x", "features"}, cols |-> {},
       binds |-> {"x_df"}],
      [line |-> 235, uses |-> {"pd"}, cols |-> {}, binds |-> {"vif_data"}],
      [line |-> 236, uses |-> {"vif_data", "x_df"}, cols |-> {}, binds |-> {}],
      [line |-> 237, uses |-> {"vif_data", "x_df", "variance_inflation_factor"},
       cols |-> {}, binds |-> {}],
      [line |-> 239, uses |-> {"vif_data"}, cols |-> {}, binds |-> {}]>>

TrainStatements ==
    <<[line |-> 273, uses |-> {"train_test_split", "X", "y"}, cols |-> {},
       binds |-> {"X_train", "X_test", "y_train", "y_test"}],
      [line |-> 275, uses |-> {"MultiOutputClassifier", "RandomForestClassifier"},
       cols |-> {}, binds |-> {"model"}],
      [line |-> 286, uses |-> {"model", "X_train", "y_train"}, cols |-> {},
       binds |-> {}]>>

EvaluateStatements ==
    <<[line |-> 305, uses |-> {"model", "X_test"}, cols |-> {},
       binds |-> {"y_pred"}],
      [line |-> 306, uses |-> {"classification_report", "y_test", "y_pred"},
       cols |-> {}, binds |-> {}],
      [line |-> 307, uses |-> {"classification_report", "y_test", "y_pred"},
       cols |-> {}, binds |-> {}]>>

ImportanceStatements ==
    <<[line |-> 334, uses |-> {"x"}, cols |-> {}, binds |-> {"features"}],
      [line |-> 335, uses |-> {"plt"}, cols |-> {}, binds |-> {}],
      [line |-> 336, uses |-> {"plt", "features", "importances"}, cols |-> {},
       binds |-> {}],
      [line |-> 337, uses |-> {"plt"}, cols |-> {}, binds |-> {}]>>

FunctionStatements ==
    <<[line |-> 368, uses |-> {}, cols |-> {}, binds |-> {"averages_calculate"}],
      [line |-> 374, uses |-> {}, cols |-> {}, binds |-> {"bar_graph"}]>>

RunCell(cell, stmts, next) ==
    /\ pc = cell
    /\ LET r == RunStatements(stmts, 1, data.cols, names)
       IN  /\ names' = r.names
           /\ IF r.failed = 0 THEN NoRaise ELSE Raise(cell, r.failed, r.kind)
    /\ pc' = next
    /\ UNCHANGED <<file, data, df, call, out>>

\* cell c334bf4d
XYVifCell == RunCell("xy_vif", XYVifStatements, "train")

\* cell 2dda8f62
TrainCell == RunCell("train", TrainStatements, "evaluate")

\* cell 8789e2cf
EvaluateCell == RunCell("evaluate", EvaluateStatements, "importance")

\* cell f95a6699
ImportanceCell == RunCell("importance", ImportanceStatements, "functions")

\* cell 29755e1c
FunctionsCell == RunCell("functions", FunctionStatements, "end")

\* ---------------------------------------------------- group reporting

RECURSIVE GCD(_, _)
GCD(a, b) == IF b = 0 THEN a ELSE GCD(b, a % b)

\* The float n / d of two counts, kept as the fraction in lowest terms: two
\* divisions give the same float exactly when the fractions are equal.
Ratio(n, d) == LET g == GCD(n, d) IN <<n \div g, d \div g>>

Zero == <<0, 1>>

FracLess(a, b) == a[1] * b[2] < b[1] * a[2]

FracSum(a, b) == Ratio(a[1] * b[2] + b[1] * a[2], a[2] * b[2])

\* The distinct values of a column in ascending order: the keys of
\* groupby(col) (sort=True) and the columns unstack() produces.
RECURSIVE SetToAsc(_)
SetToAsc(S) ==
    IF S = {} THEN <<>>
    ELSE LET m == CHOOSE x \in S : \A y \in S : x <= y
         IN  <<m>> \o SetToAsc(S \ {m})

Distinct(t, col) == SetToAsc({t.rows[i][col] : i \in DOMAIN t.rows})

\* GroupRows grouping adjacent rows only (as itertools.groupby does on
\* unsorted input): the group of key is the first run of rows holding it.
GroupRowsFirstRun(t, col, key) ==
    {i \in DOMAIN t.rows :
        /\ t.rows[i][col] = key
        /\ \A j \in 1..i : t.rows[j][col] = key
                              \/ \A h \in 1..j : t.rows[h][col] # key}

\* The rows groupby(col) puts in the group of key.
GroupRows(t, col, key) == {i \in DOMAIN t.rows : t.rows[i][col] = key}

\* value_counts(normalize=True) within one group, after unstack().fillna(0):
\* the share of the group's rows whose label is v, 0 when there is none.
Share(t, col, key, label_col, v) ==
    LET g == GroupRows(t, col, key)
        k == Cardinality({i \in g : t.rows[i][label_col] = v})
    IN  IF k = 0 THEN Zero ELSE Ratio(k, Cardinality(g))

\* df.groupby(col)[label_col].value_counts(normalize=True).unstack().fillna(0)
\* followed by grouped.columns = ['Below Average', 'Above Average']: the two
\* names go to the label values present, in ascending order; any other
\* number of label values is a length mismatch (ValueError).
Grouped(t, col, label_col) ==
    LET keys == Distinct(t, col)
        labels == Distinct(t, label_col)
    IN  IF Len(labels) # 2 THEN [error |-> "ValueError"]
        ELSE [error |-> "none",
              rows |-> [i \in DOMAIN keys |->
                          [key |-> keys[i],
                           below |-> Share(t, col, keys[i], label_col, labels[1]),
                           above |-> Share(t, col, keys[i], label_col, labels[2])]]]

\* SortValuesDescending with ascending left at its default, True.
SortValuesAscending(rows) ==
    {p \in [DOMAIN rows -> DOMAIN rows] :
        /\ \A i, j \in DOMAIN rows : i # j => p[i] # p[j]
        /\ \A i, j \in DOMAIN rows :
              i < j => ~FracLess(rows[p[j]].below, rows[p[i]].below)}

\* Series.sort_values(ascending=False) with the default kind='quicksort',
\* which is not stable: every arrangement of the rows in descending order of
\* 'Below Average' is a possible outcome.
SortValuesDescending(rows) ==
    {p \in [DOMAIN rows -> DOMAIN rows] :
        /\ \A i, j \in DOMAIN rows : i # j => p[i] # p[j]
        /\ \A i, j \in DOMAIN rows :
              i < j => ~FracLess(rows[p[i]].below, rows[p[j]].below)}

\* .head(top_n)
Head_n(s, n) == SubSeq(s, 1, IF n < Len(s) THEN n ELSE Len(s))

GroupColumns == {"gender", "education"}
LabelColumn == "Computer_Skill_Label"

\* <<gender, education>> codes of the rows of the tables passed in.
AggGroups == {<<0, 1>>, <<1, 1>>, <<0, 4>>, <<1, 5>>}

AggRows ==
    {[c \in GroupColumns \cup {LabelColumn} |->
         CASE c = "gender" -> ge[1] [] c = "education" -> ge[2] [] OTHER -> l] :
        ge \in AggGroups, l \in {0, 1}}

AggTables ==
    {[cols |-> GroupColumns \cup {LabelColumn}, rows |-> r] :
        r \in UNION {[1..m -> AggRows] : m \in 1..MaxAggRows}}

\* averages_calculate(df, group_col, label_col): prints the grouped table.
averages_calculate(group_col) ==
    /\ "averages_calculate" \in names
    /\ call = <<>>
    /\ LET g == Grouped(df, group_col, LabelColumn)
       IN  out' = IF g.error # "none" THEN [kind |-> g.error]
                  ELSE [kind |-> "printed", table |-> g.rows]
    /\ call' = [fn |-> "averages_calculate", group_cols |-> <<group_col>>,
                top_n |-> 0]
    /\ UNCHANGED <<pc, file, data, names, errors, df>>

\* One pass of the loop of bar_graph: the labels and proportions appended for
\* group column `group` when sort_values arranges the rows as `order`.
TopWorst(g, group, order, top_n) ==
    LET top == Head_n(order, top_n)
    IN  [worst_groups |-> [i \in DOMAIN top |->
                              [group |-> group, idx |-> g.rows[top[i]].key]],
         proportions |-> [i \in DOMAIN top |-> g.rows[top[i]].below]]

\* bar_graph(df, group_cols, label_col, top_n, title_prefix): the bars that
\* are plotted; an exception in any pass of the loop ends the call.
bar_graph(group_cols, top_n) ==
    /\ "bar_graph" \in names
    /\ call = <<>>
    /\ LET g(k) == Grouped(df, group_cols[k], LabelColumn)
       IN  IF \E k \in DOMAIN group_cols : g(k).error # "none"
           THEN out' = [kind |-> "ValueError"]
           ELSE \E orders \in [DOMAIN group_cols ->
                                UNION {SortValuesDescending(g(k).rows) :
                                          k \in DOMAIN group_cols}] :
                   /\ \A k \in DOMAIN group_cols :
                         orders[k] \in SortValuesDescending(g(k).rows)
                   /\ LET pass(k) == TopWorst(g(k), group_cols[k], orders[k], top_n)
                          F[k \in 0..Len(group_cols)] ==
                              IF k = 0 THEN [worst_groups |-> <<>>,
                                             proportions |-> <<>>]
                              ELSE [worst_groups |->
                                        F[k - 1].worst_groups \o pass(k).worst_groups,
                                    proportions |->
                                        F[k - 1].proportions \o pass(k).proportions]
                      IN  out' = [kind |-> "plotted",
                                  worst_groups |-> F[Len(group_cols)].worst_groups,
                                  proportions |-> F[Len(group_cols)].proportions]
    /\ call' = [fn |-> "bar_graph", group_cols |-> group_cols, top_n |-> top_n]
    /\ UNCHANGED <<pc, file, data, names, errors, df>>

GroupColumnLists ==
    {<<"gender">>, <<"education">>, <<"gender", "education">>,
     <<"education", "gender">>}

Init ==
    /\ pc = "imports"
    /\ file \in Files
    /\ data = NoFrame
    /\ names = {}
    /\ errors = <<>>
    /\ df = NoFrame
    /\ call = <<>>
    /\ out = <<>>

Next ==
    \/ ImportCell
    \/ LoadCell
    \/ CleanCell
    \/ EncodeCell
    \/ GainCell
    \/ MedianLabelCell
    \/ QuantileLabelCell
    \/ XYVifCell
    \/ TrainCell
    \/ EvaluateCell
    \/ ImportanceCell
    \/ FunctionsCell

Spec == Init /\ [][Next]_vars

\* The reporting functions applied to a DataFrame, after cell 29755e1c has
\* defined them.  Neither function changes df or reads anything but its
\* arguments, so each behaviour makes one call.
InitAgg ==
    /\ pc = "end"
    /\ file = NoFrame
    /\ data = NoFrame
    /\ names = Imports \cup {"averages_calculate", "bar_graph"}
    /\ errors = <<>>
    /\ df \in AggTables
    /\ call = <<>>
    /\ out = <<>>

NextAgg ==
    \/ \E c \in GroupColumns : averages_calculate(c)
    \/ \E gs \in GroupColumnLists, n \in 1..MaxTopN : bar_graph(gs, n)

SpecAgg == InitAgg /\ [][NextAgg]_vars

\* ------------------------------------------------------------- properties

Order == <<"imports", "load", "clean", "encode", "gain", "median", "quantile",
           "xy_vif", "train", "evaluate", "importance", "functions", "end">>

Pos(p) == CHOOSE i \in DOMAIN Order : Order[i] = p

\* Cell c has been executed / has raised.
Ran(c) == Pos(pc) > Pos(c)
Failed(c) == \E i \in DOMAIN errors : errors[i].cell = c

\* x <= median(values): the middle value of the ascending values, or the
\* mean of the two middle ones.
AtOrBelowMedian(x, values) ==
    LET a == SortAsc(values)
        n == Len(a)
    IN  IF n % 2 = 1 THEN x <= a[(n + 1) \div 2]
        ELSE 2 * x <= a[n \div 2] + a[n \div 2 + 1]

Label(below) == IF below THEN 0 ELSE 1

\* C1: right after the median-split pass, every label it wrote is 0 exactly
\* when the row's value of the labelled column is at or below the median of
\* that column over the current dataset, and 1 otherwise.
C1_MedianOfCurrentDataset ==
    (pc = "quantile" /\ errors = <<>>) =>
        \A i \in DOMAIN data.rows, k \in DOMAIN MedianPass :
            data.rows[i][MedianPass[k].target] =
                Label(AtOrBelowMedian(data.rows[i][MedianPass[k].source],
                                      Column(data, MedianPass[k].source)))

\* C2: after either pass, in every domain the gain label of a row is 0
\* exactly when the row's gain (post minus pre) is at or below the threshold
\* the pass uses for that label, and the access label is 0 exactly when the
\* pre-training score is at or below the threshold the pass uses for it.
C2_GainLabelFromGainColumn ==
    /\ (pc = "quantile" /\ errors = <<>>) =>
           \A i \in DOMAIN data.rows, k \in Domains :
              /\ data.rows[i][GainLabel[k]] =
                    Label(data.rows[i][GainColumn[k]] <= MedianPass[3 + k].threshold)
              /\ data.rows[i][AccessLabel[k]] =
                    Label(data.rows[i][PreScore[k]] <= MedianPass[k].threshold)
    /\ (pc = "xy_vif" /\ errors = <<>>) =>
           \A i \in DOMAIN data.rows, k \in Domains :
              /\ data.rows[i][GainLabel[k]] =
                    Label(AtOrBelowQuantile(data.rows[i][GainColumn[k]],
                                            Column(data, QuantilePass[3 + k].of),
                                            QuantilePass[3 + k].q))
              /\ data.rows[i][AccessLabel[k]] =
                    Label(AtOrBelowQuantile(data.rows[i][PreScore[k]],
                                            Column(data, QuantilePass[k].of),
                                            QuantilePass[k].q))

\* C3: once the Cleaner and the Feature Encoder have run without an error, every surviving
\* row has gender in {0,1}, education in 0..5 and employment in {0,1,2}.
C3_CodesInRange ==
    (Ran("encode") /\ errors = <<>>) =>
        \A i \in DOMAIN data.rows :
            /\ data.rows[i]["gender"] \in {0, 1}
            /\ data.rows[i]["education"] \in 0..5
            /\ data.rows[i]["employment"] \in {0, 1, 2}

\* C4: when the loaded table lacks the education or the gender column, the
\* Cleaner fails, and at that moment the table is still the table as loaded.
C4_FailsBeforeAnyComputation ==
    (pc = "encode" /\ ~({"education", "gender"} \subseteq file.cols)) =>
        /\ Failed("clean")
        /\ data = file

\* C5: a label-construction pass over a dataset with rows that ends without
\* an error has written both classes 0 and 1 into each of its label columns.
C5_BothClassesOrAbort ==
    /\ (pc = "quantile" /\ errors = <<>> /\ data.rows # <<>>) =>
           \A k \in DOMAIN MedianPass :
              {0, 1} \subseteq Range(Column(data, MedianPass[k].target))
    /\ (pc = "xy_vif" /\ errors = <<>> /\ data.rows # <<>>) =>
           \A k \in DOMAIN QuantilePass :
              {0, 1} \subseteq Range(Column(data, QuantilePass[k].target))

\* The share of the rows of t whose column col is key that carry label v.
ClassShare(t, col, key, v) ==
    Ratio(Cardinality({i \in DOMAIN t.rows :
                          t.rows[i][col] = key /\ t.rows[i][LabelColumn] = v}),
          Cardinality({i \in DOMAIN t.rows : t.rows[i][col] = key}))

Values(t, col) == {t.rows[i][col] : i \in DOMAIN t.rows}

\* C6: averages_calculate yields, for every group value g of the group
\* column, the pair (share of g's rows with label 0, share with label 1),
\* which sums to 1; also when a class has no rows in a group or in the table.
C6_GroupDistribution ==
    (call # <<>> /\ call.fn = "averages_calculate") =>
        /\ out.kind = "printed"
        /\ \A g \in Values(df, call.group_cols[1]) :
              \E i \in DOMAIN out.table :
                 /\ out.table[i].key = g
                 /\ out.table[i].below = ClassShare(df, call.group_cols[1], g, 0)
                 /\ out.table[i].above = ClassShare(df, call.group_cols[1], g, 1)
                 /\ FracSum(out.table[i].below, out.table[i].above) = <<1, 1>>

Min(a, b) == IF a < b THEN a ELSE b

\* Where the bars of the k-th group column start in the combined list when
\* every column before it contributes min(n, number of its groups) bars.
Offset(t, group_cols, n, k) ==
    LET F[j \in 0..(k - 1)] ==
            IF j = 0 THEN 0
            ELSE F[j - 1] + Min(n, Cardinality(Values(t, group_cols[j])))
    IN F[k - 1]

\* The bars (worst_groups, proportions) are the top-n ranking of table t:
\* the concatenation, in the order of group_cols, of one segment per group
\* column holding min(n, number of groups) distinct group values of that
\* column, tagged with the column, each with its share of label 0, in
\* descending order of that share, no group left out having a larger share.
IsTopNRanking(bars, t, group_cols, n) ==
    /\ Len(bars.worst_groups) = Offset(t, group_cols, n, Len(group_cols) + 1)
    /\ Len(bars.proportions) = Len(bars.worst_groups)
    /\ \A k \in DOMAIN group_cols :
          LET col == group_cols[k]
              first == Offset(t, group_cols, n, k) + 1
              last == Offset(t, group_cols, n, k + 1)
              listed == {bars.worst_groups[i].idx : i \in first..last}
          IN  /\ \A i \in first..last :
                    /\ bars.worst_groups[i].group = col
                    /\ bars.worst_groups[i].idx \in Values(t, col)
                    /\ bars.proportions[i] =
                          ClassShare(t, col, bars.worst_groups[i].idx, 0)
              /\ \A i, j \in first..last :
                    i < j => /\ bars.worst_groups[i].idx # bars.worst_groups[j].idx
                             /\ ~FracLess(bars.proportions[i], bars.proportions[j])
              /\ \A g \in Values(t, col) \ listed, i \in first..last :
                    ~FracLess(bars.proportions[i], ClassShare(t, col, g, 0))

Plotted == call # <<>> /\ call.fn = "bar_graph" /\ out.kind = "plotted"

\* C7: the bars bar_graph plots are, for each supplied group column in the
\* order supplied, the min(n, number of groups) group values with the
\* highest below-average share in descending order of that share, each
\* tagged with its group column, concatenated.
C7_TopNWorstGroups ==
    Plotted => IsTopNRanking(out, df, call.group_cols, call.top_n)

\* The first row of t whose column col is g.
FirstSeen(t, col, g) ==
    CHOOSE i \in DOMAIN t.rows :
        /\ t.rows[i][col] = g
        /\ \A j \in DOMAIN t.rows : t.rows[j][col] = g => i <= j

\* The places of the bars tagged (col, g).
Places(bars, col, g) ==
    {i \in DOMAIN bars.worst_groups :
        bars.worst_groups[i].group = col /\ bars.worst_groups[i].idx = g}

\* Group u of column col is ranked ahead of group v: u has a bar and v has
\* none, or u's bar comes first.
RankedAhead(bars, col, u, v) ==
    /\ Places(bars, col, u) # {}
    /\ \A i \in Places(bars, col, u), j \in Places(bars, col, v) : i < j

Tied(t, col, u, v) ==
    u # v /\ ClassShare(t, col, u, 0) = ClassShare(t, col, v, 0)

Permuted(t, p) == [t EXCEPT !.rows = [i \in DOMAIN t.rows |-> t.rows[p[i]]]]

RowPermutations(t) ==
    {p \in [DOMAIN t.rows -> DOMAIN t.rows] :
        \A i, j \in DOMAIN t.rows : i # j => p[i] # p[j]}

C9_NoMissingColumnOrName ==
    Required \subseteq file.cols =>
        \A i \in DOMAIN errors :
            (Pos(errors[i].cell) <= Pos("evaluate"))
                => errors[i].kind \notin {"KeyError", "NameError"}

\* The label columns of the table: those that are neither read from the
\* file nor gain columns.
LabelColumns == data.cols \ (file.cols \cup Range(GainColumn))

W7_TopTwoOfThree ==
    /\ Plotted
    /\ call.group_cols = <<"education">>
    /\ call.top_n = 2
    /\ Cardinality(Values(df, "education")) = 3
    /\ Len(out.proportions) = 2
    /\ out.proportions[1] # out.proportions[2]

====
